---- MODULE Spec2Model ----
(***************************************************************************)
(* Model of the adstock transformation functions of src/Adstock.py:        *)
(* geometric_adstock_decay, delayed_geometric_decay, weibull_adstock_decay.*)
(*                                                                         *)
(* Numbers.  The functions compute on Python/numpy floats.  The model      *)
(* computes on exact rationals <<n, d>> in lowest terms with d > 0, plus   *)
(* one not-a-number value NaN == <<0, 0>> that a division by zero yields   *)
(* and every operation propagates (numpy's inf and nan are one value       *)
(* here).  Floating-point rounding is therefore not modelled: the          *)
(* properties below are those of the arithmetic the code writes down.      *)
(*                                                                         *)
(* exp.  scipy's weibull_min uses exp(-t), which has no rational value for *)
(* rational t > 0.  ExpNeg(t) == 1 / (1 + t) stands for it: like exp(-t)   *)
(* it is 1 at t = 0, strictly decreasing and in (0, 1] for t >= 0.         *)
(***************************************************************************)
EXTENDS Integers, Sequences, FiniteSets, TLC

VARIABLES
    fn,              \* the function under call: "geometric", "delayed", "weibull"
    pc,              \* "call" (arguments bound), "weights" (weibull, line 89), "done"
    impact,          \* argument impact
    decay_factor,    \* argument decay_factor (geometric, delayed)
    periods,         \* argument periods (geometric, weibull)
    theta,           \* argument theta (delayed)
    L,               \* argument L (delayed)
    shape,           \* argument shape (weibull)
    scale,           \* argument scale (weibull)
    adstock_type,    \* argument adstock_type (weibull)
    normalised,      \* argument normalised (weibull)
    t_scale,         \* weibull's local transformed_scale once line 75 has run (0 before)
    theta_vec_cum,   \* weibull's local theta_vec_cum once lines 72-88 have run
    result           \* the returned series (index i of the code is i + 1 here)

vars == <<fn, pc, impact, decay_factor, periods, theta, L, shape, scale,
          adstock_type, normalised, t_scale, theta_vec_cum, result>>

\* ---------------------------------------------------------------- bounds
MaxPeriods == 4
MaxLag == 4

\* ------------------------------------------------------------ arithmetic
Abs(n) == IF n < 0 THEN -n ELSE n

RECURSIVE GCD(_, _)
GCD(a, b) == IF b = 0 THEN a ELSE GCD(b, a % b)

NaN == <<0, 0>>

IsNaN(a) == a[2] = 0

\* n / d in lowest terms, the sign carried by the numerator
Rat(n, d) ==
    IF d = 0 THEN NaN
    ELSE LET g == GCD(Abs(n), Abs(d))
             s == IF d < 0 THEN -1 ELSE 1
         IN  <<(s * n) \div g, (s * d) \div g>>

Num(n) == <<n, 1>>

Zero == Num(0)

One == Num(1)

RMul(a, b) ==
    IF IsNaN(a) \/ IsNaN(b) THEN NaN
    ELSE LET g1 == GCD(Abs(a[1]), b[2])
             g2 == GCD(Abs(b[1]), a[2])
         IN  Rat((a[1] \div g1) * (b[1] \div g2), (a[2] \div g2) * (b[2] \div g1))

RAdd(a, b) ==
    IF IsNaN(a) \/ IsNaN(b) THEN NaN
    ELSE LET g == GCD(a[2], b[2])
         IN  Rat(a[1] * (b[2] \div g) + b[1] * (a[2] \div g), (a[2] \div g) * b[2])

RNeg(a) == <<-a[1], a[2]>>

RSub(a, b) == RAdd(a, RNeg(b))

\* a / b; a zero divisor gives NaN
RDiv(a, b) ==
    IF IsNaN(a) \/ IsNaN(b) \/ b[1] = 0 THEN NaN
    ELSE RMul(a, Rat(b[2], b[1]))

\* comparisons (false on NaN, as for floats)
RLe(a, b) == ~IsNaN(a) /\ ~IsNaN(b) /\ RSub(b, a)[1] >= 0

RLt(a, b) == ~IsNaN(a) /\ ~IsNaN(b) /\ RSub(b, a)[1] > 0

RAbs(a) == <<Abs(a[1]), a[2]>>

\* base ** e for an integer e >= 0; Python gives x ** 0 = 1.0 for every x, 0.0 included
RECURSIVE Pow(_, _)
Pow(base, e) == IF e = 0 THEN One ELSE RMul(base, Pow(base, e - 1))

\* ----------------------------------------------- geometric_adstock_decay
\* the loop of lines 23-25, n iterations left
RECURSIVE geometric_loop(_, _, _, _)
geometric_loop(adstock_values, imp, df, n) ==
    IF n <= 0 THEN adstock_values
    ELSE LET imp2 == RMul(imp, df)
         IN  geometric_loop(Append(adstock_values, imp2), imp2, df, n - 1)

\* mutants: range(periods); the product taken before the first append;
\* impact *= 1 + decay_factor
geometric_adstock_decay_from0(imp, df, p) ==
    geometric_loop(<<imp>>, imp, df, p)

geometric_adstock_decay_premul(imp, df, p) ==
    geometric_loop(<<RMul(imp, df)>>, RMul(imp, df), df, p - 1)

geometric_adstock_decay_grow(imp, df, p) ==
    geometric_loop(<<imp>>, imp, RAdd(One, df), p - 1)

\* mutant: the list starts empty and the loop appends periods values
geometric_adstock_decay_empty(imp, df, p) ==
    IF p <= 0 THEN <<>> ELSE geometric_loop(<<imp>>, imp, df, p - 1)

\* lines 21-27: range(1, periods) runs max(0, periods - 1) times
geometric_adstock_decay(imp, df, p) ==
    geometric_loop(<<imp>>, imp, df, p - 1)

\* ----------------------------------------------- delayed_geometric_decay
\* mutants: the exponent max(lag - theta, 0); the exponent lag before the peak
delayed_geometric_decay_noabs(imp, df, th, len) ==
    [i \in 1..len |->
        LET lag == i - 1
        IN  IF lag < th
            THEN RMul(imp, Pow(df, 0))
            ELSE RMul(imp, Pow(df, Abs(lag - th)))]

delayed_geometric_decay_ramp(imp, df, th, len) ==
    [i \in 1..len |->
        LET lag == i - 1
        IN  IF lag < th
            THEN RMul(imp, Pow(df, lag))
            ELSE RMul(imp, Pow(df, Abs(lag - th)))]

\* lines 42-53: both branches of the if hold the same expression
delayed_geometric_decay(imp, df, th, len) ==
    [i \in 1..len |->
        LET lag == i - 1
        IN  IF lag < th
            THEN RMul(imp, Pow(df, Abs(lag - th)))
            ELSE RMul(imp, Pow(df, Abs(lag - th)))]

\* ------------------------------------------------- weibull_adstock_decay
Min2(a, b) == IF a < b THEN a ELSE b

\* floor of a rational (\div rounds towards minus infinity)
Floor(a) == a[1] \div a[2]

\* line 72: np.arange(1, periods + 1)
arange1(p) == [i \in 1..p |-> i]

\* np.quantile(x, q), linear interpolation: the virtual index (n - 1) * q, its
\* floor j and fraction g, and x[j] + g * (x[j + 1] - x[j]) (0-based)
quantile(x, q) ==
    LET n   == Len(x)
        h   == RMul(q, Num(n - 1))
        j   == Floor(h)
        g   == RSub(h, Num(j))
        lo  == x[j + 1]
        hi  == x[Min2(j + 2, n)]
    IN  RAdd(Num(lo), RMul(g, Num(hi - lo)))

\* mutant: int() in place of round(), the fraction dropped
round_trunc(a) == Floor(a)

\* Python's round() of a float to an int: to nearest, a tie to the even one
round(a) ==
    LET f == Floor(a)
        r == RSub(a, Num(f))
    IN  IF RLt(r, Rat(1, 2)) THEN f
        ELSE IF RLt(Rat(1, 2), r) THEN f + 1
        ELSE IF f % 2 = 0 THEN f ELSE f + 1

\* line 75
transformed_scale(p, sc) == round(quantile(arange1(p), sc))

\* stands for exp(-t), t >= 0 (see the head of the module)
ExpNeg(t) == RDiv(One, RAdd(One, t))

\* scipy weibull_min.cdf(x, c, scale=lam) = 1 - exp(-(x / lam) ** c)
weibull_min_cdf(x, c, lam) == RSub(One, ExpNeg(Pow(Rat(x, lam), c)))

\* scipy weibull_min.pdf(x, c, scale=lam) = (c / lam) * (x / lam) ** (c - 1) * exp(-(x / lam) ** c)
weibull_min_pdf(x, c, lam) ==
    RMul(RMul(Rat(c, lam), Pow(Rat(x, lam), c - 1)), ExpNeg(Pow(Rat(x, lam), c)))

RECURSIVE RSum(_)
RSum(v) == IF Len(v) = 0 THEN Zero ELSE RAdd(v[Len(v)], RSum(SubSeq(v, 1, Len(v) - 1)))

RECURSIVE RProd(_)
RProd(v) == IF Len(v) = 0 THEN One ELSE RMul(v[Len(v)], RProd(SubSeq(v, 1, Len(v) - 1)))

\* mutant: np.cumsum in place of np.cumprod
cumsum(v) == [i \in 1..Len(v) |-> RSum(SubSeq(v, 1, i))]

\* np.cumprod
cumprod(v) == [i \in 1..Len(v) |-> RProd(SubSeq(v, 1, i))]

\* np.zeros(n)
zeros(n) == [i \in 1..n |-> Zero]

\* lines 83-84
cdf_weights(c, lam, p) ==
    LET x_bin     == arange1(p)
        theta_vec == <<One>> \o [i \in 1..(p - 1) |-> RSub(One, weibull_min_cdf(x_bin[i], c, lam))]
    IN  cumprod(theta_vec)

\* mutant: line 88 left out
pdf_weights_nodiv(c, lam, p) ==
    [i \in 1..p |-> weibull_min_pdf(arange1(p)[i], c, lam)]

\* lines 87-88
pdf_weights(c, lam, p) ==
    LET x_bin == arange1(p)
        pdf   == [i \in 1..p |-> weibull_min_pdf(x_bin[i], c, lam)]
        total == RSum(pdf)
    IN  [i \in 1..p |-> RDiv(pdf[i], total)]

\* mutant: the test of line 78 without "or scale == 0"
weibull_weights_shape_only(c, sc, p, type) ==
    LET lam == transformed_scale(p, sc)
    IN  IF c = 0 THEN zeros(p)
        ELSE IF type = "cdf" THEN cdf_weights(c, lam, p)
        ELSE pdf_weights(c, lam, p)

\* lines 72-88: theta_vec_cum (adstock_type is "cdf" or "pdf")
weibull_weights(c, sc, p, type) ==
    LET lam == transformed_scale(p, sc)
    IN  IF c = 0 \/ sc = Zero THEN zeros(p)
        ELSE IF type = "cdf" THEN cdf_weights(c, lam, p)
        ELSE pdf_weights(c, lam, p)

RECURSIVE RMin(_)
RMin(v) ==
    IF Len(v) = 1 THEN v[1]
    ELSE LET m == RMin(SubSeq(v, 1, Len(v) - 1))
         IN  IF RLt(v[Len(v)], m) THEN v[Len(v)] ELSE m

RECURSIVE RMax(_)
RMax(v) ==
    IF Len(v) = 1 THEN v[1]
    ELSE LET m == RMax(SubSeq(v, 1, Len(v) - 1))
         IN  IF RLt(m, v[Len(v)]) THEN v[Len(v)] ELSE m

\* mutant: the range used as it is
handle_zeros_in_scale_none(data_range) == data_range

\* sklearn _handle_zeros_in_scale: a zero range is replaced by 1
handle_zeros_in_scale(data_range) == IF data_range = Zero THEN One ELSE data_range

\* mutant: scaling by the maximum only, the minimum not subtracted
MinMaxScaler_maxonly(v) ==
    LET scale_ == RDiv(One, handle_zeros_in_scale(RMax(v)))
    IN  [i \in 1..Len(v) |-> RMul(v[i], scale_)]

\* sklearn MinMaxScaler().fit_transform on one column, feature_range (0, 1):
\* scale_ = 1 / handle_zeros(max - min), min_ = 0 - min * scale_, X * scale_ + min_
MinMaxScaler(v) ==
    LET data_min   == RMin(v)
        data_range == RSub(RMax(v), data_min)
        scale_     == RDiv(One, handle_zeros_in_scale(data_range))
        min_       == RSub(Zero, RMul(data_min, scale_))
    IN  [i \in 1..Len(v) |-> RAdd(RMul(v[i], scale_), min_)]

\* lines 91-98
weibull_return(w, imp, norm) ==
    IF norm
    THEN LET norm_theta_vec_cum == MinMaxScaler(w)
         IN  [i \in 1..Len(w) |-> RMul(norm_theta_vec_cum[i], imp)]
    ELSE [i \in 1..Len(w) |-> RMul(w[i], imp)]

\* lines 55-98
weibull_adstock_decay(imp, c, sc, p, type, norm) ==
    weibull_return(weibull_weights(c, sc, p, type), imp, norm)

\* ----------------------------------------------------------------- inputs
Impacts == {Num(-1), Num(0), Num(1), Num(100)}

DecayFactors == {Zero, Rat(3, 10), Rat(1, 2), One, Num(2)}

\* geometric_adstock_decay is also called outside its domain periods >= 1
GeometricPeriods == (0 - 1)..(MaxPeriods + 1)

Thetas == (0 - 2)..(MaxLag + 1)

Shapes == {0, 1, 2}

Scales == {Zero, Rat(1, 4), Rat(1, 2), Rat(3, 4), One}

AdstockTypes == {"cdf", "pdf"}

\* ------------------------------------------------------------ the machine
InitGeometric ==
    /\ fn = "geometric"
    /\ impact \in Impacts
    /\ decay_factor \in DecayFactors
    /\ periods \in GeometricPeriods
    /\ theta = 0 /\ L = 0 /\ shape = 0 /\ scale = Zero
    /\ adstock_type = "cdf" /\ normalised = FALSE

InitDelayed ==
    /\ fn = "delayed"
    /\ \/ /\ impact \in Impacts
          /\ decay_factor \in DecayFactors
          /\ theta \in Thetas
          /\ L \in 1..MaxLag
       \/ /\ impact = Num(100)
          /\ decay_factor = Rat(1, 2)
          /\ theta = 10
          /\ L = 30
    /\ periods = 0 /\ shape = 0 /\ scale = Zero
    /\ adstock_type = "cdf" /\ normalised = FALSE

InitWeibull ==
    /\ fn = "weibull"
    /\ impact \in Impacts
    /\ shape \in Shapes
    /\ scale \in Scales
    /\ periods \in 1..MaxPeriods
    /\ adstock_type \in AdstockTypes
    /\ normalised \in BOOLEAN
    /\ decay_factor = Zero /\ theta = 0 /\ L = 0

Init ==
    /\ pc = "call"
    /\ t_scale = 0
    /\ theta_vec_cum = <<>>
    /\ result = <<>>
    /\ (InitGeometric \/ InitDelayed \/ InitWeibull)

args == <<fn, impact, decay_factor, periods, theta, L, shape, scale, adstock_type, normalised>>

Geometric ==
    /\ pc = "call" /\ fn = "geometric"
    /\ result' = geometric_adstock_decay(impact, decay_factor, periods)
    /\ pc' = "done"
    /\ UNCHANGED <<args, t_scale, theta_vec_cum>>

DelayedGeometric ==
    /\ pc = "call" /\ fn = "delayed"
    /\ result' = delayed_geometric_decay(impact, decay_factor, theta, L)
    /\ pc' = "done"
    /\ UNCHANGED <<args, t_scale, theta_vec_cum>>

\* lines 72-88
WeibullWeights ==
    /\ pc = "call" /\ fn = "weibull"
    /\ t_scale' = transformed_scale(periods, scale)
    /\ theta_vec_cum' = weibull_weights(shape, scale, periods, adstock_type)
    /\ pc' = "weights"
    /\ UNCHANGED <<args, result>>

\* lines 91-98
WeibullReturn ==
    /\ pc = "weights" /\ fn = "weibull"
    /\ result' = weibull_return(theta_vec_cum, impact, normalised)
    /\ pc' = "done"
    /\ UNCHANGED <<args, t_scale, theta_vec_cum>>

Next == Geometric \/ DelayedGeometric \/ WeibullWeights \/ WeibullReturn

Spec == Init /\ [][Next]_vars

\* ================================================================ claims
Returned(f) == pc = "done" /\ fn = f

InUnit(a) == RLe(Zero, a) /\ RLe(a, One)

NonIncreasing(v) == \A i \in 1..(Len(v) - 1) : RLe(v[i + 1], v[i])

NonDecreasing(v) == \A i \in 1..(Len(v) - 1) : RLe(v[i], v[i + 1])

IsConstant(v) == \A i \in 1..Len(v) : v[i] = v[1]

AllZero(v) == \A i \in 1..Len(v) : v[i] = Zero

\* the weights are those of a non-degenerate call (line 80's else branch)
NonDegenerate == shape > 0 /\ RLt(Zero, scale)

PeakOutside == theta < 0 \/ theta > L - 1

\* C1: within the domain (periods >= 1, L >= 1) each function returns a series
\* whose length is the requested period count: periods for geometric and
\* weibull (either mode, normalised or not, degenerate or not), L for delayed.
C1_Length ==
    /\ Returned("geometric") /\ periods >= 1 => Len(result) = periods
    /\ Returned("delayed") /\ L >= 1 => Len(result) = L
    /\ Returned("weibull") /\ periods >= 1 => Len(result) = periods
    /\ fn = "weibull" /\ pc \in {"weights", "done"} => Len(theta_vec_cum) = periods

C1_Witness ==
    /\ Returned("weibull") /\ periods = MaxPeriods /\ normalised
    /\ adstock_type = "pdf" /\ shape = 2 /\ scale = Rat(1, 2)
    /\ Len(result) = MaxPeriods

\* C2: geometric with periods >= 1 returns the running product: result[0] is
\* impact, result[i] = result[i-1] * decay_factor = impact * decay_factor^i;
\* periods = 1 gives [impact], decay_factor = 0 gives [impact, 0, 0, ...],
\* decay_factor = 1 a constant series, and (100, 0.3, 5) gives
\* [100, 30, 9, 2.7, 0.81].
C2_RunningProduct ==
    Returned("geometric") /\ periods >= 1 =>
        /\ Len(result) = periods
        /\ result[1] = impact
        /\ \A i \in 2..periods : result[i] = RMul(result[i - 1], decay_factor)
        /\ \A i \in 1..periods : result[i] = RMul(impact, Pow(decay_factor, i - 1))
        /\ periods = 1 => result = <<impact>>
        /\ decay_factor = Zero => \A i \in 2..periods : result[i] = Zero
        /\ decay_factor = One => \A i \in 1..periods : result[i] = impact
        /\ impact = Num(100) /\ decay_factor = Rat(3, 10) /\ periods = 5 =>
               result = <<Num(100), Num(30), Num(9), Rat(27, 10), Rat(81, 100)>>

C2_Witness ==
    /\ Returned("geometric")
    /\ impact = Num(100) /\ decay_factor = Rat(3, 10) /\ periods = 5
    /\ result[5] = Rat(81, 100)

\* C3: for decay_factor in [0,1], impact >= 0 and periods >= 1 the geometric
\* series is non-increasing in magnitude: |result[i+1]| <= |result[i]|.
C3_NonIncreasingMagnitude ==
    Returned("geometric") /\ InUnit(decay_factor) /\ RLe(Zero, impact) /\ periods >= 1 =>
        \A i \in 1..(Len(result) - 1) : RLe(RAbs(result[i + 1]), RAbs(result[i]))

C3_Witness ==
    /\ Returned("geometric")
    /\ impact = Num(100) /\ decay_factor = Rat(1, 2) /\ periods = 3
    /\ RLt(result[3], result[2]) /\ RLt(result[2], result[1])

\* C4: delayed returns result[i] = impact * decay_factor^|i - theta| for every
\* i in 0..L-1, the same formula before and after the peak; if 0 <= theta < L
\* then result[theta] = impact exactly, also for decay_factor = 0 (0^0 = 1),
\* where every other index is 0; (100, 0.5, 10, 30) is 100 at index 10 and
\* 0.09765625 = 25/256 at index 0.
C4_DistanceFormula ==
    Returned("delayed") =>
        /\ \A i \in 1..L : result[i] = RMul(impact, Pow(decay_factor, Abs((i - 1) - theta)))
        /\ 0 <= theta /\ theta < L =>
               /\ result[theta + 1] = impact
               /\ decay_factor = Zero =>
                      \A i \in 1..L : i # theta + 1 => result[i] = Zero
        /\ decay_factor = Rat(1, 2) =>
               \A i \in 1..L : (i - 1) - theta \in {-1, 1} => result[i] = RDiv(impact, Num(2))
        /\ impact = Num(100) /\ decay_factor = Rat(1, 2) /\ theta = 10 /\ L = 30 =>
               result[11] = Num(100) /\ result[1] = Rat(25, 256)

C4_Witness ==
    /\ Returned("delayed")
    /\ impact = Num(100) /\ decay_factor = Zero /\ theta = 1 /\ L = 3
    /\ result = <<Zero, Num(100), Zero>>

\* C5: weibull with shape = 0 or scale = 0 returns an all-zero series of
\* length periods, for every impact, periods >= 1, both modes and both
\* settings of normalised: a value, never an undefined one.
C5_DegenerateAllZero ==
    fn = "weibull" /\ (shape = 0 \/ scale = Zero) =>
        /\ pc \in {"weights", "done"} => Len(theta_vec_cum) = periods /\ AllZero(theta_vec_cum)
        /\ pc = "done" => Len(result) = periods /\ AllZero(result)

C5_Witness ==
    /\ Returned("weibull")
    /\ shape = 2 /\ scale = Zero /\ normalised /\ adstock_type = "cdf"
    /\ impact = Num(100) /\ periods = MaxPeriods
    /\ AllZero(result)

\* C6 as stated: in CDF mode with shape > 0 and scale > 0 the output is
\* non-increasing across the period index, for every impact.
C6_Original ==
    Returned("weibull") /\ adstock_type = "cdf" /\ NonDegenerate => NonIncreasing(result)

\* C6 amended: in CDF mode with shape > 0 and scale > 0 the weights start at 1
\* and are non-increasing; the output is non-increasing when impact >= 0 and
\* non-decreasing when impact <= 0.
C6_NonIncreasing ==
    fn = "weibull" /\ adstock_type = "cdf" /\ NonDegenerate =>
        /\ pc \in {"weights", "done"} =>
               theta_vec_cum[1] = One /\ NonIncreasing(theta_vec_cum)
        /\ pc = "done" /\ RLe(Zero, impact) => NonIncreasing(result)
        /\ pc = "done" /\ RLe(impact, Zero) => NonDecreasing(result)

C6_Witness ==
    /\ Returned("weibull") /\ adstock_type = "cdf"
    /\ shape = 2 /\ scale = Rat(1, 2) /\ periods = 3 /\ impact = Num(100) /\ ~normalised
    /\ RLt(result[2], result[1]) /\ RLt(result[3], result[2])

\* C7: in PDF mode with shape > 0 and scale > 0 the weights before min-max
\* normalisation and before the multiplication by impact sum to 1, for every
\* periods >= 1; hence the unnormalised PDF output sums to impact.
C7_PdfSumsToOne ==
    fn = "weibull" /\ adstock_type = "pdf" /\ NonDegenerate =>
        /\ pc \in {"weights", "done"} => RSum(theta_vec_cum) = One
        /\ pc = "done" /\ ~normalised => RSum(result) = impact

C7_Witness ==
    /\ Returned("weibull") /\ adstock_type = "pdf" /\ ~normalised
    /\ shape = 2 /\ scale = Rat(1, 2) /\ periods = 3 /\ impact = Num(100)
    /\ RLt(theta_vec_cum[1], One) /\ RLt(Zero, theta_vec_cum[1])
    /\ RSum(result) = Num(100)

\* C8 as stated: with normalised true and weights that are not constant, the
\* output has minimum 0 and maximum impact, in both modes.
C8_Original ==
    Returned("weibull") /\ normalised /\ ~IsConstant(theta_vec_cum) =>
        RMin(result) = Zero /\ RMax(result) = impact

\* C8 amended: with normalised true and weights that are not constant, the
\* output has minimum 0 and maximum impact when impact >= 0, and minimum
\* impact and maximum 0 when impact < 0; with normalised false every element
\* is its weight times impact.
C8_MinMax ==
    Returned("weibull") =>
        /\ normalised /\ ~IsConstant(theta_vec_cum) /\ RLe(Zero, impact) =>
               RMin(result) = Zero /\ RMax(result) = impact
        /\ normalised /\ ~IsConstant(theta_vec_cum) /\ RLt(impact, Zero) =>
               RMin(result) = impact /\ RMax(result) = Zero
        /\ ~normalised =>
               \A i \in 1..periods : result[i] = RMul(theta_vec_cum[i], impact)

C8_Witness ==
    /\ Returned("weibull") /\ normalised /\ adstock_type = "pdf"
    /\ shape = 2 /\ scale = Rat(1, 2) /\ periods = 3 /\ impact = Num(100)
    /\ ~IsConstant(theta_vec_cum)
    /\ RMin(result) = Zero /\ RMax(result) = Num(100)

\* C9 as stated: with normalised true and identical weights the min-max
\* normalisation divides by zero, so no result is defined.
C9_Original ==
    Returned("weibull") /\ normalised /\ IsConstant(theta_vec_cum) =>
        \E i \in 1..periods : IsNaN(result[i])

\* C9 amended: with normalised true and identical weights (periods = 1, or
\* the all-zero degenerate vector) the zero range is replaced by 1, nothing is
\* divided by zero, and the result is the all-zero series of length periods.
C9_ConstantWeights ==
    Returned("weibull") /\ normalised /\ IsConstant(theta_vec_cum) =>
        Len(result) = periods /\ AllZero(result)

C9_Witness ==
    /\ Returned("weibull") /\ normalised /\ adstock_type = "pdf"
    /\ shape = 2 /\ scale = Rat(1, 2) /\ periods = 1 /\ impact = Num(100)
    /\ theta_vec_cum = <<One>>
    /\ result = <<Zero>>

\* C10 as stated: with theta outside [0, L-1] a series of length L is returned
\* and no element equals impact.
C10_Original ==
    Returned("delayed") /\ PeakOutside =>
        Len(result) = L /\ \A i \in 1..L : result[i] # impact

\* C10 amended: with theta outside [0, L-1] a series of length L is returned;
\* no element equals impact when impact # 0 and 0 <= decay_factor < 1, and
\* every element equals impact when decay_factor = 1 or impact = 0.
C10_PeakOutside ==
    Returned("delayed") /\ PeakOutside =>
        /\ Len(result) = L
        /\ impact # Zero /\ RLe(Zero, decay_factor) /\ RLt(decay_factor, One) =>
               \A i \in 1..L : result[i] # impact
        /\ decay_factor = One \/ impact = Zero =>
               \A i \in 1..L : result[i] = impact

C10_Witness ==
    /\ Returned("delayed") /\ theta = L + 1 /\ L = 3
    /\ impact = Num(100) /\ decay_factor = Rat(1, 2)
    /\ result = <<Rat(25, 4), Rat(25, 2), Num(25)>>

\* C11: for every periods >= 1 and scale in [0,1], transformed_scale is the
\* integer nearest to the interpolated quantile 1 + scale * (periods - 1)
\* (at most 1/2 away from it) and lies in 1..periods, so the Weibull scale of
\* the non-degenerate branch is strictly positive; for periods = 1 it is 1.
C11_ScaleTransform ==
    fn = "weibull" /\ pc \in {"weights", "done"} =>
        LET q == RAdd(One, RMul(scale, Num(periods - 1)))
        IN  /\ RLe(RAbs(RSub(Num(t_scale), q)), Rat(1, 2))
            /\ t_scale \in 1..periods
            /\ NonDegenerate => t_scale > 0
            /\ periods = 1 => t_scale = 1
            /\ scale = Zero => t_scale = 1
            /\ scale = One => t_scale = periods

C11_Witness ==
    /\ Returned("weibull") /\ NonDegenerate
    /\ periods = 4 /\ scale = Rat(3, 4)
    /\ t_scale = 3

\* C12: geometric_adstock_decay never returns an empty series: for every
\* integer periods, periods <= 0 included, the result starts with impact and
\* has length max(1, periods); for periods <= 1 it is exactly [impact].
C12_NeverEmpty ==
    Returned("geometric") =>
        /\ Len(result) = (IF periods >= 1 THEN periods ELSE 1)
        /\ result[1] = impact
        /\ periods <= 1 => result = <<impact>>

C12_Witness ==
    /\ Returned("geometric") /\ periods = -1
    /\ impact = Num(100) /\ decay_factor = Rat(1, 2)
    /\ result = <<Num(100)>>

====
